---- MODULE Spec2Model ----
(***************************************************************************)
(* Model of the kindred lexical front end: the table-driven automaton      *)
(* runner (src/lexer/automaton.rs), the tokenizer built on three automata  *)
(* with one token of lookahead (src/lexer/lexer_ana.rs).                   *)
(*                                                                         *)
(* Characters are one-character strings; a source text is a sequence of    *)
(* them (Lexer.source is a Vec<char>).  current_index is 0-based as in the *)
(* code, so the character under the cursor is source[current_index + 1].   *)
(* An Option<T> is a sequence of length 0 (None) or 1 (Some).              *)
(***************************************************************************)
EXTENDS Naturals, Sequences, FiniteSets

VARIABLES
    source,          \* Lexer.source
    current_index,   \* Lexer.current_index
    line,            \* Lexer.line
    column,          \* Lexer.column
    peeked_token,    \* Lexer.peeked_token : Option<Token>
    errors,          \* Lexer.errors
    dfa_files,       \* which automaton tables the three .dfa files held at construction
    returned,        \* history: the tokens handed out by next_token, in order
    last,            \* history: the most recent peek/next_token call and what it returned
    lines,           \* the text handed to Automata::from_lines
    built,           \* Option<Result<Automata, DfaError>>: what from_lines returned
    runners,         \* DfaRunner.current_state of each runner created on the automaton
    last_step,       \* history: the most recent DfaRunner call and what it returned
    parser           \* parser(): where the token-consumption loop stands and what it returned

\* The variables of an automaton built and run on its own.
dfa_vars == <<lines, built, runners, last_step>>

vars == <<source, current_index, line, column, peeked_token, errors, dfa_files, returned, last,
          lines, built, runners, last_step, parser>>

(***************************************************************************)
(* Bounds of the model.                                                    *)
(***************************************************************************)
MaxLen == 3

\* next_token calls explored per run: enough to drain any source of MaxLen
\* characters and to see end-of-file returned twice.
MaxCalls == MaxLen + 2

(***************************************************************************)
(* Characters and their classes (char::is_ascii_digit, char::is_alphabetic)*)
(***************************************************************************)
NUL == "NUL"
NL == "\n"
TAB == "\t"
CR == "\r"
QUOTE == "\""
BACKSLASH == "\\"

Digits == {"0", "1", "2", "3", "4", "5", "6", "7", "8", "9"}

LowerLetters == {"a", "b", "c", "d", "e", "f", "g", "h", "i", "j", "k", "l", "m", "n", "o", "p", "q", "r", "s", "t", "u", "v", "w", "x", "y", "z"}

UpperLetters == {"A", "B", "C", "D", "E", "F", "G", "H", "I", "J", "K", "L", "M", "N", "O", "P", "Q", "R", "S", "T", "U", "V", "W", "X", "Y", "Z"}

Letters == LowerLetters \cup UpperLetters

\* Alphabetic characters outside ASCII.  parse_alphabet and parse_transitions
\* accept only symbols whose UTF-8 length is 1, so no automaton built by
\* from_lines has a transition on any of them.
NonAsciiAlphabetic == {"é"}

is_ascii_digit(c) == c \in Digits

is_alphabetic(c) == c \in Letters \cup NonAsciiAlphabetic

(***************************************************************************)
(* Automata (automaton.rs).  A definition is the record from_lines builds. *)
(***************************************************************************)
Automata_transition(automata, state, symbol) ==
    IF <<state, symbol>> \in DOMAIN automata.transitions
    THEN <<automata.transitions[<<state, symbol>>]>>
    ELSE <<>>

is_final_state(automata, state) == state \in automata.final_states

initial_state(automata) == automata.initial_state

\* DfaRunner::new: a runner is its current state; the definition is passed along.
DfaRunner_new(automata) == initial_state(automata)

\* transition reporting the step without moving the runner.
DfaRunner_transition_Stays(automata, current_state, character) ==
    LET next_state == Automata_transition(automata, current_state, character)
    IN  IF next_state # <<>>
        THEN [current_state |-> current_state,
              result |-> IF is_final_state(automata, next_state[1])
                         THEN "Accepted" ELSE "Continue"]
        ELSE [current_state |-> current_state, result |-> "Reject"]

\* transition sending a rejecting runner back to the initial state.
DfaRunner_transition_RejectResets(automata, current_state, character) ==
    LET next_state == Automata_transition(automata, current_state, character)
    IN  IF next_state # <<>>
        THEN [current_state |-> next_state[1],
              result |-> IF is_final_state(automata, next_state[1])
                         THEN "Accepted" ELSE "Continue"]
        ELSE [current_state |-> initial_state(automata), result |-> "Reject"]

\* DfaRunner::transition: the runner's next state and the TransitionResult.
DfaRunner_transition(automata, current_state, character) ==
    LET next_state == Automata_transition(automata, current_state, character)
    IN  IF next_state # <<>>
        THEN [current_state |-> next_state[1],
              result |-> IF is_final_state(automata, next_state[1])
                         THEN "Accepted" ELSE "Continue"]
        ELSE [current_state |-> current_state, result |-> "Reject"]

\* reset leaving the initial state for another state, where there is one.
DfaRunner_reset_Elsewhere(automata) ==
    IF automata.states = {initial_state(automata)} THEN initial_state(automata)
    ELSE CHOOSE s \in automata.states : s # initial_state(automata)

DfaRunner_reset(automata) == initial_state(automata)

\* The loop of process_string: the runner's state when the call returns, and
\* the value returned.
RECURSIVE process_chars(_, _, _)
process_chars(automata, current_state, input) ==
    IF input = <<>>
    THEN [current_state |-> current_state,
          result |-> is_final_state(automata, current_state)]
    ELSE LET r == DfaRunner_transition(automata, current_state, Head(input))
         IN  IF r.result = "Reject"
             THEN [current_state |-> r.current_state, result |-> FALSE]
             ELSE process_chars(automata, r.current_state, Tail(input))

\* process_string going on from the state the runner is in.
process_string_NoReset(automata, current_state, input) ==
    process_chars(automata, current_state, input)

\* DfaRunner::process_string on a runner in current_state: reset, then step
\* through the input.
process_string(automata, current_state, input) ==
    process_chars(automata, DfaRunner_reset(automata), input)

(***************************************************************************)
(* Building an automaton from text (Automata::from_lines).  A line is a    *)
(* sequence of characters; a Result is [ok |-> TRUE, value |-> v] or       *)
(* [ok |-> FALSE, error |-> kind], kind being the DfaError variant.        *)
(***************************************************************************)
\* The characters that occur in the inputs, in the order of their code points
\* (Ord for char).
CharOrder == <<
    " ", "#", "$", "%", "&", ",", ".", "0", "1", "2", "3", "4", "5", "6", "7", "8", "9",
    "=", "A", "B", "C", "D", "E", "F", "G", "H", "I", "J", "K", "L", "M", "N", "O", "P",
    "Q", "R", "S", "T", "U", "V", "W", "X", "Y", "Z", "_", "a", "b", "c", "d", "e", "f",
    "g", "h", "i", "j", "k", "l", "m", "n", "o", "p", "q", "r", "s", "t", "u", "v", "w",
    "x", "y", "z", "|", "é"
>>

\* str::len is the length in bytes of the UTF-8 text.
utf8_len(c) == IF c \in NonAsciiAlphabetic THEN 2 ELSE 1

RECURSIVE str_len(_)
str_len(s) == IF s = <<>> THEN 0 ELSE utf8_len(Head(s)) + str_len(Tail(s))

Whitespace == {" ", TAB, CR, NL}

RECURSIVE trim_start(_)
trim_start(s) == IF s # <<>> /\ Head(s) \in Whitespace THEN trim_start(Tail(s)) ELSE s

RECURSIVE trim_end(_)
trim_end(s) ==
    IF s # <<>> /\ s[Len(s)] \in Whitespace THEN trim_end(SubSeq(s, 1, Len(s) - 1)) ELSE s

\* str::trim
trim(s) == trim_end(trim_start(s))

\* str::split on any of the separators: one more field than separators.
RECURSIVE split(_, _)
split(s, seps) ==
    IF \E n \in 1..Len(s) : s[n] \in seps
    THEN LET n == CHOOSE n \in 1..Len(s) : s[n] \in seps /\ \A m \in 1..(n - 1) : s[m] \notin seps
         IN  <<SubSeq(s, 1, n - 1)>> \o split(SubSeq(s, n + 1, Len(s)), seps)
    ELSE <<s>>

\* .split(..).map(|s| s.trim())
trimmed_fields(s, seps) == LET f == split(s, seps) IN [n \in 1..Len(f) |-> trim(f[n])]

is_not_empty(s) == s # <<>>

\* .split(',').map(|s| s.trim().to_string()).filter(|s| !s.is_empty()).collect()
nonempty_fields(s) == SelectSeq(trimmed_fields(s, {","}), is_not_empty)

\* Vec::contains is the only use the code makes of states and final_states:
\* the model keeps the set of their elements.
elements(v) == {v[n] : n \in 1..Len(v)}

Ok(v) == [ok |-> TRUE, value |-> v]

Err(kind) == [ok |-> FALSE, error |-> kind]

DigitSeq == <<"0", "1", "2", "3", "4", "5", "6", "7", "8", "9">>

LowerSeq == <<
    "a", "b", "c", "d", "e", "f", "g", "h", "i", "j", "k", "l", "m", "n", "o", "p", "q",
    "r", "s", "t", "u", "v", "w", "x", "y", "z"
>>

UpperSeq == <<
    "A", "B", "C", "D", "E", "F", "G", "H", "I", "J", "K", "L", "M", "N", "O", "P", "Q",
    "R", "S", "T", "U", "V", "W", "X", "Y", "Z"
>>

\* The for loop of parse_alphabet over the remaining symbols.
RECURSIVE expand_symbols(_, _)
expand_symbols(symbols, expanded_alphabet) ==
    IF symbols = <<>> THEN Ok(expanded_alphabet)
    ELSE LET symbol == Head(symbols)
         IN  CASE symbol = <<"$">> ->
                    expand_symbols(Tail(symbols), expanded_alphabet \o DigitSeq)
               [] symbol = <<"%">> ->
                    expand_symbols(Tail(symbols), expanded_alphabet \o LowerSeq \o UpperSeq)
               [] symbol = <<"&">> ->
                    expand_symbols(Tail(symbols),
                                   expanded_alphabet \o DigitSeq \o LowerSeq \o UpperSeq)
               [] OTHER ->
                    IF str_len(symbol) = 1
                    THEN expand_symbols(Tail(symbols), Append(expanded_alphabet, symbol[1]))
                    ELSE Err("InvalidFormat")

\* sort_unstable on characters: the elements in ascending code-point order,
\* each as often as it occurs.
RECURSIVE sort_from(_, _)
sort_from(n, v) ==
    IF n > Len(CharOrder) THEN <<>>
    ELSE SelectSeq(v, LAMBDA c : c = CharOrder[n]) \o sort_from(n + 1, v)

sort_unstable(v) == sort_from(1, v)

\* dedup leaving every element in place.
dedup_KeepsAll(v) == v

\* Vec::dedup: consecutive repeated elements removed.
RECURSIVE dedup(_)
dedup(v) ==
    IF Len(v) < 2 THEN v
    ELSE IF v[1] = v[2] THEN dedup(Tail(v))
    ELSE <<v[1]>> \o dedup(Tail(v))

parse_alphabet(line_) ==
    LET expanded == expand_symbols(nonempty_fields(line_), <<>>)
    IN  IF expanded.ok THEN Ok(dedup(sort_unstable(expanded.value))) ELSE expanded

\* The checks of one transition line without the test of the destination.
check_transition_NoDestination(parts, states, alphabet, transitions) ==
    IF Len(parts) # 3 THEN "InvalidFormat"
    ELSE IF parts[1] \notin states THEN "InvalidState"
    ELSE IF str_len(parts[2]) # 1 THEN "InvalidFormat"
    ELSE IF parts[2][1] \notin elements(alphabet) THEN "InvalidSymbol"
    ELSE IF <<parts[1], parts[2][1]>> \in DOMAIN transitions THEN "DuplicateTransition"
    ELSE "ok"

\* The checks parse_transitions makes on the fields of one line, in order:
\* the error kind of the first that fails, or "ok".
check_transition(parts, states, alphabet, transitions) ==
    IF Len(parts) # 3 THEN "InvalidFormat"
    ELSE IF parts[1] \notin states THEN "InvalidState"
    ELSE IF parts[3] \notin states THEN "InvalidState"
    ELSE IF str_len(parts[2]) # 1 THEN "InvalidFormat"
    ELSE IF parts[2][1] \notin elements(alphabet) THEN "InvalidSymbol"
    ELSE IF <<parts[1], parts[2][1]>> \in DOMAIN transitions THEN "DuplicateTransition"
    ELSE "ok"

\* The for loop of parse_transitions over the remaining lines; transitions is
\* the HashMap so far, a function on <<state, symbol>> pairs.
RECURSIVE parse_transitions_from(_, _, _, _)
parse_transitions_from(lines_, states, alphabet, transitions) ==
    IF lines_ = <<>> THEN Ok(transitions)
    ELSE LET line_ == trim(Head(lines_))
             parts == trimmed_fields(line_, {"=", ","})
             verdict == check_transition(parts, states, alphabet, transitions)
             key == <<parts[1], parts[2][1]>>
         IN  IF line_ = <<>>
             THEN parse_transitions_from(Tail(lines_), states, alphabet, transitions)
             ELSE IF verdict # "ok" THEN Err(verdict)
             ELSE parse_transitions_from(Tail(lines_), states, alphabet,
                      [p \in DOMAIN transitions \cup {key} |->
                          IF p = key THEN parts[3] ELSE transitions[p]])

parse_transitions(lines_, states, alphabet) ==
    parse_transitions_from(lines_, states, alphabet, [p \in {} |-> <<>>])

from_lines(lines_) ==
    IF Len(lines_) < 4 THEN Err("InvalidFormat")
    ELSE LET alphabet == parse_alphabet(lines_[1])
             states == elements(nonempty_fields(lines_[2]))
             initial_state_ == trim(split(lines_[3], {","})[1])
             final_states == elements(nonempty_fields(lines_[4]))
             transitions == parse_transitions(SubSeq(lines_, 5, Len(lines_)), states,
                                              alphabet.value)
         IN  IF ~alphabet.ok THEN alphabet
             ELSE IF states = {} THEN Err("InvalidFormat")
             ELSE IF initial_state_ \notin states THEN Err("InvalidInitialState")
             ELSE IF \E f \in final_states : f \notin states THEN Err("InvalidState")
             ELSE IF ~transitions.ok THEN transitions
             ELSE Ok([alphabet |-> alphabet.value,
                      states |-> states,
                      initial_state |-> initial_state_,
                      final_states |-> final_states,
                      transitions |-> transitions.value])

(***************************************************************************)
(* The automaton tables.  Lexer::new reads them from identifier.dfa,       *)
(* integer.dfa and float.dfa; the tables are input data of the lexer, and  *)
(* the model draws them from two well-formed sets of tables.               *)
(***************************************************************************)
\* identifier.dfa: a letter, then letters, digits and underscores.
IdentifierDfa ==
    [alphabet |-> Letters \cup Digits \cup {"_"},
     states |-> {"q0", "q1"},
     initial_state |-> "q0",
     final_states |-> {"q1"},
     transitions |->
        [p \in ({"q0"} \X Letters) \cup ({"q1"} \X (Letters \cup Digits \cup {"_"}))
            |-> "q1"]]

\* integer.dfa: a run of digits.
IntegerDfa ==
    [alphabet |-> Digits,
     states |-> {"q0", "q1"},
     initial_state |-> "q0",
     final_states |-> {"q1"},
     transitions |-> [p \in {"q0", "q1"} \X Digits |-> "q1"]]

\* float.dfa: digits, a dot, digits.
FloatDfa ==
    [alphabet |-> Digits \cup {"."},
     states |-> {"q0", "q1", "q2", "q3"},
     initial_state |-> "q0",
     final_states |-> {"q3"},
     transitions |->
        [p \in ({"q0", "q1"} \X Digits) \cup {<<"q1", ".">>} \cup ({"q2", "q3"} \X Digits)
            |-> IF p[1] \in {"q0", "q1"}
                THEN (IF p[2] = "." THEN "q2" ELSE "q1")
                ELSE "q3"]]

\* An integer.dfa with digit separators (1_000): digit runs joined by single
\* underscores.  After an accepted digit run a separator leads to a
\* non-final state, from which only a digit continues.
IntegerSepDfa ==
    [alphabet |-> Digits \cup {"_"},
     states |-> {"q0", "q1", "q2"},
     initial_state |-> "q0",
     final_states |-> {"q1"},
     transitions |->
        [p \in ({"q0", "q1", "q2"} \X Digits) \cup {<<"q1", "_">>}
            |-> IF p[2] = "_" THEN "q2" ELSE "q1"]]

\* An integer.dfa of octal numbers: a run of the digits 0 to 7.  The digits
\* 8 and 9 start no integer.
OctalDigits == {"0", "1", "2", "3", "4", "5", "6", "7"}

IntegerOctalDfa ==
    [alphabet |-> OctalDigits,
     states |-> {"q0", "q1"},
     initial_state |-> "q0",
     final_states |-> {"q1"},
     transitions |-> [p \in {"q0", "q1"} \X OctalDigits |-> "q1"]]

LoadedDfas ==
    [plain |-> [identifier_dfa |-> IdentifierDfa,
                integer_dfa |-> IntegerDfa,
                float_dfa |-> FloatDfa],
     separators |-> [identifier_dfa |-> IdentifierDfa,
                     integer_dfa |-> IntegerSepDfa,
                     float_dfa |-> FloatDfa],
     octal |-> [identifier_dfa |-> IdentifierDfa,
                integer_dfa |-> IntegerOctalDfa,
                float_dfa |-> FloatDfa]]

DfaFileSets == {"plain", "separators"}

identifier_dfa == LoadedDfas[dfa_files].identifier_dfa
integer_dfa == LoadedDfas[dfa_files].integer_dfa
float_dfa == LoadedDfas[dfa_files].float_dfa

(***************************************************************************)
(* Tokens, spans and diagnostics (lexer_ana.rs).                           *)
(***************************************************************************)
\* Spans with line and column counted from 0.
Span_new_ZeroBased(start, end, ln, col) ==
    [start |-> start, end |-> end, line |-> ln - 1, column |-> col - 1]

Span_new(start, end, ln, col) == [start |-> start, end |-> end, line |-> ln, column |-> col]

LexerError_new(message, span, error_type) ==
    [message |-> message, span |-> span, error_type |-> error_type]

Token_new(type_, lexeme, span) == [type_ |-> type_, lexeme |-> lexeme, span |-> span]

\* An end-of-file token one character wide.
Token_eof_OneWide(position, ln, col) ==
    [type_ |-> "EndOfFile", lexeme |-> <<>>, span |-> Span_new(position, position + 1, ln, col)]

Token_eof(position, ln, col) ==
    [type_ |-> "EndOfFile", lexeme |-> <<>>, span |-> Span_new(position, position, ln, col)]

Token_error(lexeme, span) == [type_ |-> "Unknown", lexeme |-> lexeme, span |-> span]

\* The keyword table filled in by Lexer::new: <<lexeme, token type>> pairs.
keywords == {
    <<<<"l","e","t">>, "KeywordLet">>,
    <<<<"i","f">>, "KeywordIf">>,
    <<<<"e","l","s","e">>, "KeywordElse">>,
    <<<<"f","o","r">>, "KeywordFor">>,
    <<<<"w","h","i","l","e">>, "KeywordWhile">>,
    <<<<"r","e","t","u","r","n">>, "KeywordReturn">>,
    <<<<"f","n">>, "KeywordFn">>,
    <<<<"d","e","f","i","n","e">>, "Define_">>,
    <<<<"p","r","o","g","r","a","m","a">>, "Programa_">>,
    <<<<"i","n","i","c","i","o">>, "Inicio_">>,
    <<<<"f","i","n">>, "Fin_">>,
    <<<<"m","o","d","u","l","o">>, "Modulo_">>,
    <<<<"m","a","q","u","i","n","a","s">>, "Maquinas_">>,
    <<<<"c","o","n","c","e","n","t","r","a","d","o","r","e","s">>, "Concentradores_">>,
    <<<<"c","o","a","x","i","a","l">>, "Coaxial_">>,
    <<<<"c","o","l","o","c","a">>, "Coloca_">>,
    <<<<"c","o","l","o","c","a","C","o","a","x","i","a","l">>, "ColocaCoaxial_">>,
    <<<<"c","o","l","o","c","a","C","o","a","x","i","a","l","C","o","n","c","e","n","t","r","a","d","o","r">>, "ColocaCoaxialConcentrador_">>,
    <<<<"u","n","e","M","a","q","u","i","n","a","P","u","e","r","t","o">>, "UneMaquinaPuerto_">>,
    <<<<"a","s","i","g","n","a","P","u","e","r","t","o">>, "AsignaPuerto_">>,
    <<<<"m","a","q","u","i","n","a","C","o","a","x","i","a","l">>, "MaquinaCoaxial_">>,
    <<<<"a","s","i","g","n","a","M","a","q","u","i","n","a","C","o","a","x","i","a","l">>, "AsignaMaquinaCoaxial_">>,
    <<<<"e","s","c","r","i","b","e">>, "Escribe_">>,
    <<<<"s","i">>, "Si_">>,
    <<<<"s","i","n","o">>, "Sino_">>,
    <<<<"a","r","r","i","b","a">>, "Arriba_">>,
    <<<<"a","b","a","j","o">>, "Abajo_">>,
    <<<<"i","z","q","u","i","e","r","d","a">>, "Izquierda_">>,
    <<<<"d","e","r","e","c","h","a">>, "Derecha_">>,
    <<<<"p","u","e","r","t","o","s">>, "Puertos_">>,
    <<<<"d","i","s","p","o","n","i","b","l","e","s">>, "Disponibles_">>,
    <<<<"p","r","e","s","e","n","t","e">>, "Presente_">>,
    <<<<"l","o","n","g","i","t","u","d">>, "Longitud_">>,
    <<<<"c","o","m","p","l","e","t","o">>, "Completo_">>,
    <<<<"n","u","m">>, "Num_">>,
    <<<<"m","a","q","u","i","n","a">>, "Maquina_">>,
    <<<<"p","o","s">>, "Pos_">>
}

\* The lookup left out: every identifier-shaped lexeme is an Identifier.
keyword_or_identifier_NoLookup(lexeme) == "Identifier"

\* self.keywords.get(&lexeme).cloned().unwrap_or(TokenType::Identifier)
keyword_or_identifier(lexeme) ==
    IF \E k \in keywords : k[1] = lexeme
    THEN (CHOOSE k \in keywords : k[1] = lexeme)[2]
    ELSE "Identifier"

KeywordTypes == {k[2] : k \in keywords}

(***************************************************************************)
(* The cursor.  The operators below work on a record lx holding the        *)
(* mutable part of the Lexer that a scan touches:                          *)
(*   [current_index, line, column, errors].                                *)
(***************************************************************************)
is_at_end(lx) == lx.current_index >= Len(source)

peek_char(lx) == IF is_at_end(lx) THEN NUL ELSE source[lx.current_index + 1]

\* advance: every caller has checked that the cursor is not at the end.
advance(lx) == [lx EXCEPT !.current_index = @ + 1, !.column = @ + 1]

make_token(lx, type_, lexeme, start_index, start_line, start_column) ==
    Token_new(type_, lexeme, Span_new(start_index, lx.current_index, start_line, start_column))

\* report_error keeping only the newest diagnostic.
report_error_Overwrites(lx, message, start_index, start_line, start_column, error_type) ==
    LET span == Span_new(start_index, lx.current_index, start_line, start_column)
    IN  [tok |-> Token_error(message, span),
         lx |-> [lx EXCEPT !.errors = <<LexerError_new(message, span, error_type)>>]]

\* report_error returning the Unknown token without recording a diagnostic.
report_error_Unrecorded(lx, message, start_index, start_line, start_column, error_type) ==
    LET span == Span_new(start_index, lx.current_index, start_line, start_column)
    IN  [tok |-> Token_error(message, span), lx |-> lx]

\* report_error: appends the diagnostic and returns the Unknown token; the
\* result is the token and the Lexer after the call.
report_error(lx, message, start_index, start_line, start_column, error_type) ==
    LET span == Span_new(start_index, lx.current_index, start_line, start_column)
    IN  [tok |-> Token_error(message, span),
         lx |-> [lx EXCEPT !.errors = Append(@, LexerError_new(message, span, error_type))]]

\* Lexer::has_errors
has_errors(lx) == ~(Len(lx.errors) = 0)

\* Lexer::get_errors
get_errors(lx) == lx.errors

\* The loop of a line comment going on over the newline that ends it.
RECURSIVE skip_line_comment_ThroughNewline(_)
skip_line_comment_ThroughNewline(lx) ==
    IF is_at_end(lx) THEN lx
    ELSE IF peek_char(lx) # NL THEN skip_line_comment_ThroughNewline(advance(lx))
    ELSE advance(lx)

\* The inner while loop of a line comment.
RECURSIVE skip_line_comment(_)
skip_line_comment(lx) ==
    IF ~is_at_end(lx) /\ peek_char(lx) # NL
    THEN skip_line_comment(advance(lx))
    ELSE lx

RECURSIVE skip_whitespace_and_comments(_)
skip_whitespace_and_comments(lx) ==
    LET c == peek_char(lx)
    IN  CASE c \in {" ", TAB, CR} -> skip_whitespace_and_comments(advance(lx))
          [] c = NL ->
                skip_whitespace_and_comments(advance([lx EXCEPT !.line = @ + 1, !.column = 0]))
          [] c = "/" ->
                IF lx.current_index + 1 < Len(source) /\ source[lx.current_index + 2] = "/"
                THEN skip_whitespace_and_comments(skip_line_comment(lx))
                ELSE lx
          [] OTHER -> lx

(***************************************************************************)
(* Longest-match attempts.  The three try_match_* functions share one loop *)
(* text; match_loop is that loop: it feeds the characters under the cursor *)
(* to the runner and yields the Lexer after the loop together with         *)
(* last_accept_index (an Option).                                          *)
(***************************************************************************)
\* match_loop stopping at the first accepting state instead of going on.
RECURSIVE match_loop_FirstAccept(_, _, _, _)
match_loop_FirstAccept(automata, runner, lx, last_accept_index) ==
    IF is_at_end(lx)
    THEN [lx |-> lx, last_accept_index |-> last_accept_index]
    ELSE LET r == DfaRunner_transition(automata, runner, peek_char(lx))
         IN  CASE r.result = "Reject" ->
                    [lx |-> lx, last_accept_index |-> last_accept_index]
               [] r.result = "Accepted" ->
                    [lx |-> advance(lx), last_accept_index |-> <<advance(lx).current_index>>]
               [] r.result = "Continue" ->
                    match_loop_FirstAccept(automata, r.current_state, advance(lx),
                                           last_accept_index)

RECURSIVE match_loop(_, _, _, _)
match_loop(automata, runner, lx, last_accept_index) ==
    IF is_at_end(lx)
    THEN [lx |-> lx, last_accept_index |-> last_accept_index]
    ELSE LET r == DfaRunner_transition(automata, runner, peek_char(lx))
         IN  CASE r.result = "Reject" ->
                    [lx |-> lx, last_accept_index |-> last_accept_index]
               [] r.result = "Accepted" ->
                    match_loop(automata, r.current_state, advance(lx),
                               <<advance(lx).current_index>>)
               [] r.result = "Continue" ->
                    match_loop(automata, r.current_state, advance(lx), last_accept_index)

\* source[start_index..end_index]
slice(start_index, end_index) == SubSeq(source, start_index + 1, end_index)

\* The identifier attempt going back to save_index after a match as well.
try_match_identifier_Rewinds(lx, start_index, start_line, start_column) ==
    LET save_index == lx.current_index
        m == match_loop(identifier_dfa, DfaRunner_new(identifier_dfa), lx, <<>>)
    IN  IF m.last_accept_index # <<>>
        THEN LET end_index == m.last_accept_index[1]
                 lexeme == slice(start_index, end_index)
             IN  [tok |-> <<Token_new(keyword_or_identifier(lexeme), lexeme,
                                      Span_new(start_index, end_index, start_line, start_column))>>,
                  lx |-> [m.lx EXCEPT !.current_index = save_index]]
        ELSE [tok |-> <<>>, lx |-> [m.lx EXCEPT !.current_index = save_index]]

\* Each attempt yields an Option<Token> and the Lexer after it.  With a
\* recorded accept the token ends at that offset and the cursor stays where
\* the loop stopped; with none, current_index alone goes back to save_index.
try_match_identifier(lx, start_index, start_line, start_column) ==
    LET save_index == lx.current_index
        m == match_loop(identifier_dfa, DfaRunner_new(identifier_dfa), lx, <<>>)
    IN  IF m.last_accept_index # <<>>
        THEN LET end_index == m.last_accept_index[1]
                 lexeme == slice(start_index, end_index)
             IN  [tok |-> <<Token_new(keyword_or_identifier(lexeme), lexeme,
                                      Span_new(start_index, end_index, start_line, start_column))>>,
                  lx |-> m.lx]
        ELSE [tok |-> <<>>, lx |-> [m.lx EXCEPT !.current_index = save_index]]

try_match_integer(lx, start_index, start_line, start_column) ==
    LET save_index == lx.current_index
        m == match_loop(integer_dfa, DfaRunner_new(integer_dfa), lx, <<>>)
    IN  IF m.last_accept_index # <<>>
        THEN LET end_index == m.last_accept_index[1]
                 lexeme == slice(start_index, end_index)
             IN  [tok |-> <<Token_new("Integer", lexeme,
                                      Span_new(start_index, end_index, start_line, start_column))>>,
                  lx |-> m.lx]
        ELSE [tok |-> <<>>, lx |-> [m.lx EXCEPT !.current_index = save_index]]

try_match_float(lx, start_index, start_line, start_column) ==
    LET save_index == lx.current_index
        m == match_loop(float_dfa, DfaRunner_new(float_dfa), lx, <<>>)
    IN  IF m.last_accept_index # <<>>
        THEN LET end_index == m.last_accept_index[1]
                 lexeme == slice(start_index, end_index)
             IN  [tok |-> <<Token_new("Float", lexeme,
                                      Span_new(start_index, end_index, start_line, start_column))>>,
                  lx |-> m.lx]
        ELSE [tok |-> <<>>, lx |-> [m.lx EXCEPT !.current_index = save_index]]

(***************************************************************************)
(* String literals.                                                        *)
(***************************************************************************)
\* The escapes taken verbatim: the letter itself for every escape.
escapes_Verbatim == {<<"n", "n">>, <<"t", "t">>, <<"r", "r">>, <<BACKSLASH, BACKSLASH>>,
                     <<QUOTE, QUOTE>>, <<"0", "0">>}

\* The match arms of scan_string for the character after a backslash, as
\* <<escape letter, character pushed>>.
escapes == {<<"n", NL>>, <<"t", TAB>>, <<"r", CR>>, <<BACKSLASH, BACKSLASH>>,
            <<QUOTE, QUOTE>>, <<"0", NUL>>}

\* The while loop of scan_string and what follows it.
RECURSIVE scan_string_loop(_, _, _, _, _)
scan_string_loop(lx, value, start_index, start_line, start_column) ==
    IF ~is_at_end(lx) /\ peek_char(lx) # QUOTE
    THEN IF peek_char(lx) = BACKSLASH
         THEN LET a == advance(lx)
                  c == peek_char(a)
              IN  IF is_at_end(a)
                  THEN report_error(a, <<"Unterminated string">>, start_index, start_line,
                                    start_column, "UnterminatedString")
                  ELSE IF \E e \in escapes : e[1] = c
                  THEN scan_string_loop(advance(a),
                                        Append(value, (CHOOSE e \in escapes : e[1] = c)[2]),
                                        start_index, start_line, start_column)
                  ELSE scan_string_loop(
                           advance([a EXCEPT !.errors = Append(@,
                               LexerError_new(<<"Invalid escape sequence '\\", c, "'">>,
                                              Span_new(a.current_index - 1, a.current_index + 1,
                                                       a.line, a.column - 1),
                                              "InvalidEscape"))]),
                           Append(value, c), start_index, start_line, start_column)
         ELSE IF peek_char(lx) = NL
         THEN report_error(lx, <<"Unterminated string before newline">>, start_index,
                           start_line, start_column, "UnterminatedString")
         ELSE scan_string_loop(advance(lx), Append(value, peek_char(lx)),
                               start_index, start_line, start_column)
    ELSE IF is_at_end(lx)
    THEN report_error(lx, <<"Unterminated string (end of file)">>, start_index, start_line,
                      start_column, "UnterminatedString")
    ELSE LET a == advance(lx)
         IN  [tok |-> Token_new("StringLiteral", value,
                                Span_new(start_index, a.current_index, start_line, start_column)),
              lx |-> a]

scan_string(lx, start_index, start_line, start_column) ==
    scan_string_loop(advance(lx), <<>>, start_index, start_line, start_column)

(***************************************************************************)
(* scan_token.                                                             *)
(***************************************************************************)
\* The arms of scan_token that consume one character and make its token.
single_char_tokens == {
    <<"(", "ParenthesisLeft">>, <<")", "ParenthesisRight">>,
    <<"{", "BraceLeft">>, <<"}", "BraceRight">>,
    <<"[", "BracketLeft">>, <<"]", "BracketRight">>,
    <<";", "Semicolon">>, <<",", "Comma">>, <<".", "Dot">>,
    <<"+", "OperatorPlus">>, <<"-", "OperatorMinus">>,
    <<"*", "OperatorMultiply">>, <<"/", "OperatorDivide">>}

\* The arms `c => advance; if next is second then advance, token two else ...`.
\* `otherwise` is the result when the second character does not follow.
\* The compound-operator arms without the look at the next character.
two_char_NoLookahead(lx, second, type_, lexeme, start_index, start_line, start_column, otherwise) ==
    otherwise

two_char(lx, second, type_, lexeme, start_index, start_line, start_column, otherwise) ==
    IF ~is_at_end(lx) /\ peek_char(lx) = second
    THEN [tok |-> make_token(advance(lx), type_, lexeme, start_index, start_line, start_column),
          lx |-> advance(lx)]
    ELSE otherwise

\* The digit arm with the two attempts in the other order.
scan_number_IntegerFirst(lx, start_index, start_line, start_column) ==
    LET i == try_match_integer(lx, start_index, start_line, start_column)
        f == try_match_float(i.lx, start_index, start_line, start_column)
    IN  IF i.tok # <<>> THEN [tok |-> i.tok[1], lx |-> i.lx]
        ELSE IF f.tok # <<>> THEN [tok |-> f.tok[1], lx |-> f.lx]
        ELSE report_error(f.lx, <<"Invalid number">>, start_index, start_line, start_column,
                          "InvalidNumber")

\* The digit arm: float first, then integer, then the invalid-number report.
scan_number(lx, start_index, start_line, start_column) ==
    LET f == try_match_float(lx, start_index, start_line, start_column)
        i == try_match_integer(f.lx, start_index, start_line, start_column)
    IN  IF f.tok # <<>> THEN [tok |-> f.tok[1], lx |-> f.lx]
        ELSE IF i.tok # <<>> THEN [tok |-> i.tok[1], lx |-> i.lx]
        ELSE report_error(i.lx, <<"Invalid number">>, start_index, start_line, start_column,
                          "InvalidNumber")

\* The arm for alphabetic characters and '_'.
scan_identifier(lx, c, start_index, start_line, start_column) ==
    LET t == try_match_identifier(lx, start_index, start_line, start_column)
    IN  IF t.tok # <<>> THEN [tok |-> t.tok[1], lx |-> t.lx]
        ELSE report_error(t.lx, <<"Invalid identifier: '", c, "'">>, start_index, start_line,
                          start_column, "UnexpectedCharacter")

\* The last arm: any other character is consumed and reported.
scan_unknown(lx, c, start_index, start_line, start_column) ==
    report_error(advance(lx), <<"Unknown character: '", c, "'">>, start_index, start_line,
                 start_column, "UnexpectedCharacter")

\* The '&' arm consuming the character after a lone '&' as well.
scan_doubled_ConsumesNext(lx, c, type_, message, start_index, start_line, start_column) ==
    LET a == advance(lx)
        b == IF is_at_end(a) THEN a ELSE advance(a)
    IN  two_char(a, c, type_, <<c, c>>, start_index, start_line, start_column,
                 report_error(b, message, start_index, start_line, start_column,
                              "UnexpectedCharacter"))

\* The '&' arm (and, with "|", the '|' arm): a doubled character is the
\* operator, a single one is consumed and reported.
scan_doubled(lx, c, type_, message, start_index, start_line, start_column) ==
    LET a == advance(lx)
    IN  two_char(a, c, type_, <<c, c>>, start_index, start_line, start_column,
                 report_error(a, message, start_index, start_line, start_column,
                              "UnexpectedCharacter"))

\* scan_token yields the token and the Lexer after the scan.
scan_token(lx0) ==
    LET lx == skip_whitespace_and_comments(lx0)
        si == lx.current_index
        sl == lx.line
        sc == lx.column
        c == peek_char(lx)
        a == advance(lx)
        one(type_) == [tok |-> make_token(a, type_, <<c>>, si, sl, sc), lx |-> a]
    IN  IF is_at_end(lx)
        THEN [tok |-> Token_eof(lx.current_index, lx.line, lx.column), lx |-> lx]
        ELSE CASE \E s \in single_char_tokens : s[1] = c ->
                    one((CHOOSE s \in single_char_tokens : s[1] = c)[2])
               [] c = "&" -> scan_doubled(lx, "&", "And", <<"Expected '&&'">>, si, sl, sc)
               [] c = "|" -> scan_doubled(lx, "|", "Or", <<"Expected '||'">>, si, sl, sc)
               [] c = "=" -> two_char(a, "=", "OperatorEqual", <<"=", "=">>, si, sl, sc,
                                      one("OperatorAssign"))
               [] c = "!" -> two_char(a, "=", "OperatorNotEqual", <<"!", "=">>, si, sl, sc,
                                      one("Not"))
               [] c = "<" -> two_char(a, "=", "OperatorLessEq", <<"<", "=">>, si, sl, sc,
                                two_char(a, ">", "OperatorNotEqual", <<"<", ">">>, si, sl, sc,
                                         one("OperatorLess")))
               [] c = ">" -> two_char(a, "=", "OperatorGreaterEq", <<">", "=">>, si, sl, sc,
                                      one("OperatorGreater"))
               [] c = QUOTE -> scan_string(lx, si, sl, sc)
               [] is_ascii_digit(c) -> scan_number(lx, si, sl, sc)
               [] is_alphabetic(c) \/ c = "_" -> scan_identifier(lx, c, si, sl, sc)
               [] OTHER -> scan_unknown(lx, c, si, sl, sc)

(***************************************************************************)
(* The Lexer as a state machine: Lexer::new, then any sequence of peek and *)
(* next_token calls.                                                       *)
(***************************************************************************)
\* The part of the Lexer a scan reads and writes, and its write-back.
lexer == [current_index |-> current_index, line |-> line, column |-> column,
          errors |-> errors]

store(lx) ==
    /\ current_index' = lx.current_index
    /\ line' = lx.line
    /\ column' = lx.column
    /\ errors' = lx.errors

SeqsUpTo(S, n) == UNION {[1..k -> S] : k \in 0..n}

\* The characters source texts are drawn from.
Chars == {"1", ".", "i", "f", "_", " ", "&", "|", "#", "é"}

\* The runners that can be created on a built automaton.
RunnerIds == {1, 2}

NoStep == [op |-> "none", runner |-> 0, symbol |-> NUL, input |-> <<>>, from |-> <<>>,
           to |-> <<>>, result |-> "none"]

\* No automaton is built apart from the lexer's tables.
DfaIdle ==
    /\ lines = <<>>
    /\ built = <<>>
    /\ runners = [r \in RunnerIds |-> <<>>]
    /\ last_step = NoStep

\* The token-consumption loop is not running: peek and next_token are called
\* in any order.
ParserIdle == parser = [pc |-> "idle", result |-> "none"]

\* Lexer::new on one of `sources`, with one of the sets of tables `files`.
Lexer_from(sources, files) ==
    /\ source \in sources
    /\ dfa_files \in files
    /\ current_index = 0
    /\ line = 1
    /\ column = 1
    /\ peeked_token = <<>>
    /\ errors = <<>>
    /\ returned = <<>>
    /\ last = [op |-> "none", tok |-> <<>>, scanned |-> FALSE]

\* Lexer::new on a source text over `chars`, with the tables the .dfa files hold.
Lexer_new(chars) ==
    Lexer_from(SeqsUpTo(chars, MaxLen), DfaFileSets) /\ DfaIdle /\ ParserIdle

Init == Lexer_new(Chars)

\* peek scanning afresh on every call, whatever is buffered.
Peek_Rescan ==
    /\ LET r == scan_token(lexer)
       IN  /\ store(r.lx)
           /\ peeked_token' = <<r.tok>>
           /\ last' = [op |-> "peek", tok |-> <<r.tok>>, scanned |-> TRUE]
    /\ UNCHANGED <<source, dfa_files, returned>>
    /\ UNCHANGED dfa_vars

\* Lexer::peek
Peek ==
    /\ IF peeked_token = <<>>
       THEN LET r == scan_token(lexer)
            IN  /\ store(r.lx)
                /\ peeked_token' = <<r.tok>>
                /\ last' = [op |-> "peek", tok |-> <<r.tok>>, scanned |-> TRUE]
       ELSE /\ UNCHANGED <<current_index, line, column, errors, peeked_token>>
            /\ last' = [op |-> "peek", tok |-> peeked_token, scanned |-> FALSE]
    /\ UNCHANGED <<source, dfa_files, returned>>
    /\ UNCHANGED dfa_vars

\* next_token scanning afresh without looking at the buffered token.
NextToken_IgnoresBuffer ==
    /\ Len(returned) < MaxCalls
    /\ LET r == scan_token(lexer)
       IN  /\ store(r.lx)
           /\ returned' = Append(returned, r.tok)
           /\ last' = [op |-> "next", tok |-> <<r.tok>>, scanned |-> TRUE]
           /\ UNCHANGED peeked_token
    /\ UNCHANGED <<source, dfa_files>>
    /\ UNCHANGED dfa_vars

\* Lexer::next_token
NextToken ==
    /\ Len(returned) < MaxCalls
    /\ IF peeked_token # <<>>
       THEN /\ peeked_token' = <<>>
            /\ returned' = Append(returned, peeked_token[1])
            /\ last' = [op |-> "next", tok |-> peeked_token, scanned |-> FALSE]
            /\ UNCHANGED <<current_index, line, column, errors>>
       ELSE LET r == scan_token(lexer)
            IN  /\ store(r.lx)
                /\ returned' = Append(returned, r.tok)
                /\ last' = [op |-> "next", tok |-> <<r.tok>>, scanned |-> TRUE]
                /\ UNCHANGED peeked_token
    /\ UNCHANGED <<source, dfa_files>>
    /\ UNCHANGED dfa_vars

Next == (Peek \/ NextToken) /\ UNCHANGED parser

Spec == Init /\ [][Next]_vars

\* The token-consumption loop (parser_ana.rs) keeps calling next_token: a call
\* that can be made is made.  Sources for the runs under fairness come from
\* a smaller set of characters.
LoopChars == {"i", " ", "é"}

FairInit == Lexer_new(LoopChars)

FairSpec == FairInit /\ [][Next]_vars /\ WF_vars(NextToken /\ UNCHANGED parser)

\* Sources with string literals: quotes, backslashes, a valid and an invalid
\* escape letter, newlines and a digit, one character longer than the others.
StringChars == {QUOTE, BACKSLASH, "n", "q", NL, "1"}

StringInit ==
    Lexer_from(SeqsUpTo(StringChars, MaxLen + 1), {"plain"}) /\ DfaIdle /\ ParserIdle

StringSpec == StringInit /\ [][Next]_vars

\* Sources of operator characters and a letter.
OperatorChars == {"=", "!", "<", ">", "&", "|", "i"}

OperatorInit ==
    Lexer_from(SeqsUpTo(OperatorChars, MaxLen), {"plain"}) /\ DfaIdle /\ ParserIdle

OperatorSpec == OperatorInit /\ [][Next]_vars

\* Sources of digits, dots and blanks, read with the octal integer table: 9
\* starts neither a float (unless a dot and a digit follow) nor an integer.
NumberChars == {"1", "9", ".", " "}

NumberInit == Lexer_from(SeqsUpTo(NumberChars, MaxLen), {"octal"}) /\ DfaIdle /\ ParserIdle

NumberSpec == NumberInit /\ [][Next]_vars

\* Sources with slashes, newlines, a letter, a blank and an unknown character,
\* long enough for a comment, its newline and a token after it.
CommentChars == {"/", NL, "i", " ", "#"}

CommentInit ==
    Lexer_from(SeqsUpTo(CommentChars, MaxLen + 2), {"plain"}) /\ DfaIdle /\ ParserIdle

CommentSpec == CommentInit /\ [][Next]_vars

(***************************************************************************)
(* The token-consumption loop (parser_ana.rs): parser() makes the Lexer    *)
(* and calls peek and next_token in the order of its loop.  parser.pc is   *)
(* the call it makes next, parser.result what it has returned.             *)
(***************************************************************************)
\* Sources with the keyword let, identifiers, blanks and an unknown
\* character, long enough for "let t" and "#let".
ParserChars == {"l", "e", "t", " ", "#"}

ParserInit ==
    /\ Lexer_from(SeqsUpTo(ParserChars, MaxLen + 2), {"plain"})
    /\ DfaIdle
    /\ parser = [pc |-> "peek", result |-> "running"]

\* lexer.peek(): at the top of the loop, where the match on the token
\* follows, and in the KeywordLet arm, where the second next_token follows
\* (the test of the token's type prints a message and nothing else).
ParserPeek ==
    /\ parser.pc \in {"peek", "let_peek"}
    /\ Peek
    /\ parser' = [parser EXCEPT !.pc = IF parser.pc = "peek" THEN "match" ELSE "let_next"]

\* The loop left on any Unknown token as well as on EndOfFile.
ParserBreak_OnUnknown ==
    /\ parser.pc = "match"
    /\ peeked_token[1].type_ \in {"EndOfFile", "Unknown"}
    /\ parser' = [pc |-> "done", result |-> IF errors # <<>> THEN "Err" ELSE "Ok"]
    /\ UNCHANGED <<source, current_index, line, column, peeked_token, errors, dfa_files,
                   returned, last>>
    /\ UNCHANGED dfa_vars

\* The EndOfFile arm: break, then the has_errors test and the return.
ParserBreak ==
    /\ parser.pc = "match"
    /\ peeked_token[1].type_ = "EndOfFile"
    /\ parser' = [pc |-> "done", result |-> IF errors # <<>> THEN "Err" ELSE "Ok"]
    /\ UNCHANGED <<source, current_index, line, column, peeked_token, errors, dfa_files,
                   returned, last>>
    /\ UNCHANGED dfa_vars

\* lexer.next_token(): in the Unknown arm and the last arm, back to the top
\* of the loop; in the KeywordLet arm, first on to the peek of that arm and
\* later back to the top.
ParserNextToken ==
    /\ \/ parser.pc = "match" /\ peeked_token[1].type_ # "EndOfFile"
       \/ parser.pc = "let_next"
    /\ NextToken
    /\ parser' = [parser EXCEPT !.pc =
                     IF parser.pc = "match" /\ peeked_token[1].type_ = "KeywordLet"
                     THEN "let_peek" ELSE "peek"]

ParserNext ==
    \/ ParserPeek
    \/ ParserBreak
    \/ ParserNextToken

ParserSpec == ParserInit /\ [][ParserNext]_vars

(***************************************************************************)
(* An automaton built from text and run on its own (automaton.rs).  The    *)
(* text is a header of four lines (alphabet, states, initial state, final  *)
(* states) followed by transition lines.                                   *)
(***************************************************************************)
MaxTransitions == 2

\* Alphabet lines: "a,$" | " $ ,, a,$,1 ,a" | "&" | "%,$,_" | "ab,$" | "é,a"
AlphabetLines == {
    <<"a", ",", "$">>,
    <<" ", "$", " ", ",", ",", " ", "a", ",", "$", ",", "1", " ", ",", "a">>,
    <<"&">>,
    <<"%", ",", "$", ",", "_">>,
    <<"a", "b", ",", "$">>,
    <<"é", ",", "a">>}

\* State lines: "p,q0" | " , "
StatesLines == {
    <<"p", ",", "q", "0">>,
    <<" ", ",", " ">>}

\* Initial-state lines: "p" | "x" | " p ,q0" | ""
InitialLines == {
    <<"p">>,
    <<"x">>,
    <<" ", "p", " ", ",", "q", "0">>,
    <<>>}

\* Final-state lines: "q0" | "x" | "" | "p, q0"
FinalLines == {
    <<"q", "0">>,
    <<"x">>,
    <<>>,
    <<"p", ",", " ", "q", "0">>}

\* Transition lines: "p,a=q0" | "q0,1=q0" | "p,a=p" | " q0 = a , p " | "x,a=p" | "p,a=x" | "p,b=q0" | "p,ab=q0" | "p,a" | "" | "p,é=q0"
TransitionLines == {
    <<"p", ",", "a", "=", "q", "0">>,
    <<"q", "0", ",", "1", "=", "q", "0">>,
    <<"p", ",", "a", "=", "p">>,
    <<" ", "q", "0", " ", "=", " ", "a", " ", ",", " ", "p", " ">>,
    <<"x", ",", "a", "=", "p">>,
    <<"p", ",", "a", "=", "x">>,
    <<"p", ",", "b", "=", "q", "0">>,
    <<"p", ",", "a", "b", "=", "q", "0">>,
    <<"p", ",", "a">>,
    <<>>,
    <<"p", ",", "é", "=", "q", "0">>}

\* The header "a,$" / "p,q0" / "p" / "q0".
GoodHeader == <<<<"a", ",", "$">>, <<"p", ",", "q", "0">>, <<"p">>, <<"q", "0">>>>

\* The headers that differ from GoodHeader in at most one line.
DfaHeaders ==
    {[GoodHeader EXCEPT ![1] = l] : l \in AlphabetLines}
        \cup {[GoodHeader EXCEPT ![2] = l] : l \in StatesLines}
        \cup {[GoodHeader EXCEPT ![3] = l] : l \in InitialLines}
        \cup {[GoodHeader EXCEPT ![4] = l] : l \in FinalLines}

\* The texts from_lines is given: a header and up to MaxTransitions transition
\* lines, or fewer than four lines.
DfaInputs ==
    {h \o t : h \in DfaHeaders, t \in SeqsUpTo(TransitionLines, MaxTransitions)}
        \cup {SubSeq(GoodHeader, 1, n) : n \in 0..3}

\* The characters a runner is stepped on.
StepSymbols == {"a", "1", "b", "é"}

DfaInit ==
    /\ Lexer_from({<<>>}, {"plain"})
    /\ ParserIdle
    /\ lines \in DfaInputs
    /\ built = <<>>
    /\ runners = [r \in RunnerIds |-> <<>>]
    /\ last_step = NoStep

\* The automaton from_lines returned.
automata_built == built[1].value

\* Automata::from_lines on the text.
FromLines ==
    /\ built = <<>>
    /\ built' = <<from_lines(lines)>>
    /\ UNCHANGED <<lines, runners, last_step>>

\* Automata::create_runner
CreateRunner(r) ==
    /\ built # <<>> /\ built[1].ok
    /\ runners[r] = <<>>
    /\ runners' = [runners EXCEPT ![r] = <<DfaRunner_new(automata_built)>>]
    /\ last_step' = [NoStep EXCEPT !.op = "new", !.runner = r, !.to = runners'[r]]
    /\ UNCHANGED <<lines, built>>

\* DfaRunner::transition on runner r
Step(r, c) ==
    /\ runners[r] # <<>>
    /\ LET t == DfaRunner_transition(automata_built, runners[r][1], c)
       IN  /\ runners' = [runners EXCEPT ![r] = <<t.current_state>>]
           /\ last_step' = [NoStep EXCEPT !.op = "transition", !.runner = r, !.symbol = c,
                                          !.from = runners[r], !.to = <<t.current_state>>,
                                          !.result = t.result]
    /\ UNCHANGED <<lines, built>>

\* reset on runner r resetting every runner there is.
Reset_All(r) ==
    /\ runners[r] # <<>>
    /\ runners' = [q \in RunnerIds |->
                      IF runners[q] # <<>> THEN <<DfaRunner_reset(automata_built)>> ELSE <<>>]
    /\ last_step' = [NoStep EXCEPT !.op = "reset", !.runner = r, !.from = runners[r],
                                   !.to = runners'[r]]
    /\ UNCHANGED <<lines, built>>

\* DfaRunner::reset on runner r
Reset(r) ==
    /\ runners[r] # <<>>
    /\ runners' = [runners EXCEPT ![r] = <<DfaRunner_reset(automata_built)>>]
    /\ last_step' = [NoStep EXCEPT !.op = "reset", !.runner = r, !.from = runners[r],
                                   !.to = runners'[r]]
    /\ UNCHANGED <<lines, built>>

DfaNext ==
    /\ \/ FromLines
       \/ \E r \in RunnerIds : CreateRunner(r)
       \/ \E r \in RunnerIds, c \in StepSymbols : Step(r, c)
       \/ \E r \in RunnerIds : Reset(r)
    /\ UNCHANGED <<source, current_index, line, column, peeked_token, errors, dfa_files,
                   returned, last, parser>>

DfaSpec == DfaInit /\ [][DfaNext]_vars

\* Texts of automata whole inputs are run on: "p,a=q0" and "q0,1=q0", or
\* "p,a=p", or no transition at all, with p or q0 as the initial state; q0 is
\* the final state.
RunTransitions == {
    <<>>,
    <<<<"p", ",", "a", "=", "q", "0">>>>,
    <<<<"p", ",", "a", "=", "q", "0">>, <<"q", "0", ",", "1", "=", "q", "0">>>>,
    <<<<"p", ",", "a", "=", "p">>>>,
    <<<<"p", ",", "a", "=", "p">>, <<"q", "0", ",", "1", "=", "q", "0">>>>}

RunInputs ==
    {h \o t : h \in {GoodHeader, [GoodHeader EXCEPT ![3] = <<"q", "0">>]},
              t \in RunTransitions}

\* The inputs process_string is given: a symbol with transitions from p, one
\* with transitions from q0, up to MaxLen of them.
ProcessSymbols == {"a", "1"}

ProcessInputs == SeqsUpTo(ProcessSymbols, MaxLen)

RunInit ==
    /\ Lexer_from({<<>>}, {"plain"})
    /\ ParserIdle
    /\ lines \in RunInputs
    /\ built = <<>>
    /\ runners = [r \in RunnerIds |-> <<>>]
    /\ last_step = NoStep

\* DfaRunner::process_string on runner r
ProcessString(r, input) ==
    /\ runners[r] # <<>>
    /\ LET p == process_string(automata_built, runners[r][1], input)
       IN  /\ runners' = [runners EXCEPT ![r] = <<p.current_state>>]
           /\ last_step' = [NoStep EXCEPT !.op = "process_string", !.runner = r,
                                          !.input = input, !.from = runners[r],
                                          !.to = <<p.current_state>>,
                                          !.result = IF p.result THEN "true" ELSE "false"]
    /\ UNCHANGED <<lines, built>>

RunNext ==
    /\ \/ FromLines
       \/ \E r \in RunnerIds : CreateRunner(r)
       \/ \E r \in RunnerIds, c \in ProcessSymbols : Step(r, c)
       \/ \E r \in RunnerIds, input \in ProcessInputs : ProcessString(r, input)
    /\ UNCHANGED <<source, current_index, line, column, peeked_token, errors, dfa_files,
                   returned, last, parser>>

RunSpec == RunInit /\ [][RunNext]_vars

(***************************************************************************)
(* Vocabulary of the properties.                                           *)
(***************************************************************************)
\* Every token the Lexer has produced that is still visible: handed out,
\* buffered, or returned by the most recent call.
Produced ==
    {returned[n] : n \in 1..Len(returned)}
        \cup {peeked_token[n] : n \in 1..Len(peeked_token)}
        \cup {last.tok[n] : n \in 1..Len(last.tok)}

IsEof(opt) == opt # <<>> /\ opt[1].type_ = "EndOfFile"

\* The character a token starts at (NUL for a token at the end of the source).
StartChar(t) == IF t.span.start < Len(source) THEN source[t.span.start + 1] ELSE NUL

\* The length of the longest non-empty prefix of source[s..] the automaton
\* accepts when run from its initial state; 0 when it accepts none.
LongestAccepted(automata, s) ==
    LET ks == {k \in 1..(Len(source) - s) :
                  process_string(automata, initial_state(automata),
                                 SubSeq(source, s + 1, s + k)).result}
    IN  IF ks = {} THEN 0 ELSE CHOOSE k \in ks : \A j \in ks : j <= k

\* The automaton behind a token type produced by a longest-match attempt.
MatchedTypes == {"Identifier", "Integer", "Float"} \cup KeywordTypes

AutomatonOf(type_) ==
    CASE type_ = "Float" -> float_dfa
      [] type_ = "Integer" -> integer_dfa
      [] OTHER -> identifier_dfa

(***************************************************************************)
(* C1.  Longest match is maximal: a token produced by the identifier,      *)
(* integer or float attempt started at offset s carries exactly the        *)
(* longest non-empty prefix of source[s..] its automaton accepts.          *)
(***************************************************************************)
LongestMatchMaximal ==
    \A t \in Produced :
        t.type_ \in MatchedTypes =>
            LET k == LongestAccepted(AutomatonOf(t.type_), t.span.start)
            IN  /\ k > 0
                /\ t.lexeme = SubSeq(source, t.span.start + 1, t.span.start + k)

\* An integer of two digits (a shorter accepted prefix exists) whose attempt
\* scanned on past the last accepting point.
LongestMatchWitness ==
    /\ last.scanned
    /\ last.tok[1].type_ = "Integer"
    /\ Len(last.tok[1].lexeme) = 2
    /\ current_index > last.tok[1].span.end

(***************************************************************************)
(* C2.  After a successful identifier/integer/float match the cursor       *)
(* offset equals the last accepted offset, the token's span end.           *)
(***************************************************************************)
CursorAtLastAccepted ==
    (last.scanned /\ last.tok[1].type_ \in MatchedTypes) =>
        current_index = last.tok[1].span.end

(***************************************************************************)
(* C3.  Float before integer: at a digit, if the float automaton accepts a *)
(* prefix the token is the Float with the longest such prefix; an Integer  *)
(* is produced only when the float automaton accepts no prefix and the     *)
(* integer automaton accepts one.                                          *)
(***************************************************************************)
FloatBeforeInteger ==
    \A t \in Produced :
        is_ascii_digit(StartChar(t)) =>
            LET s == t.span.start
                kf == LongestAccepted(float_dfa, s)
            IN  /\ kf > 0 => /\ t.type_ = "Float"
                             /\ t.lexeme = SubSeq(source, s + 1, s + kf)
                /\ t.type_ = "Integer" => /\ kf = 0
                                          /\ LongestAccepted(integer_dfa, s) > 0

\* Both outcomes in one run: 1.1 came out as one Float, and a digit the float
\* automaton does not accept came out as an Integer.
FloatBeforeIntegerWitness ==
    /\ \E t \in Produced : t.type_ = "Float" /\ t.lexeme = <<"1", ".", "1">>
    /\ last.scanned

(***************************************************************************)
(* C4.  Keyword precedence: a successful identifier match with lexeme L    *)
(* has the keyword's type when L is a key of the keyword table and         *)
(* Identifier otherwise, with the same lexeme and span either way.         *)
(***************************************************************************)
KeywordPrecedence ==
    \A t \in Produced :
        LET s == t.span.start
            k == LongestAccepted(identifier_dfa, s)
            L == SubSeq(source, s + 1, s + k)
        IN  ((is_alphabetic(StartChar(t)) \/ StartChar(t) = "_") /\ k > 0) =>
                /\ t.lexeme = L
                /\ t.span.end = s + k
                /\ \/ \E kw \in keywords : kw[1] = L /\ t.type_ = kw[2]
                   \/ (\A kw \in keywords : kw[1] # L) /\ t.type_ = "Identifier"

\* `if` followed by another character came out as KeywordIf over two
\* characters, handed out by next_token.
KeywordPrecedenceWitness ==
    /\ Len(source) = 3
    /\ \E n \in 1..Len(returned) :
          /\ returned[n].type_ = "KeywordIf"
          /\ returned[n].lexeme = <<"i", "f">>
          /\ returned[n].span.end = returned[n].span.start + 2

(***************************************************************************)
(* C5.  peek does not advance consumption and is idempotent: the           *)
(* next_token after a peek returns the token the peek returned; a second   *)
(* consecutive peek returns it too and leaves the cursor, the buffered     *)
(* token and the diagnostic log as they were.                              *)
(***************************************************************************)
PeekIdempotent ==
    [][(last.op = "peek" /\ last'.op = "next" => last'.tok = last.tok)
       /\ (last.op = "peek" /\ last'.op = "peek" =>
              /\ last'.tok = last.tok
              /\ UNCHANGED <<current_index, line, column, peeked_token, errors>>)]_vars

\* next_token has just handed out a buffered, non-end-of-file token: the call
\* before it was a peek, and input is left for the following scan.
PeekIdempotentWitness ==
    /\ last.op = "next"
    /\ ~last.scanned
    /\ last.tok[1].type_ = "Identifier"
    /\ current_index < Len(source)

(***************************************************************************)
(* C6.  The token stream is independent of lookahead: whatever peeks were  *)
(* interleaved, the tokens next_token has returned are the tokens a run of *)
(* scans alone produces, and once end-of-file has been returned the        *)
(* diagnostic log is that run's log.                                       *)
(***************************************************************************)
\* n scans in a row from lx, no buffering: the tokens and the Lexer after them.
RECURSIVE scan_run(_, _, _)
scan_run(lx, n, tokens) ==
    IF n = 0 THEN [tokens |-> tokens, lx |-> lx]
    ELSE LET r == scan_token(lx)
         IN  scan_run(r.lx, n - 1, Append(tokens, r.tok))

LookaheadIndependent ==
    LET ref == scan_run([current_index |-> 0, line |-> 1, column |-> 1, errors |-> <<>>],
                        Len(returned), <<>>)
    IN  /\ returned = ref.tokens
        /\ (\E n \in 1..Len(returned) : returned[n].type_ = "EndOfFile") =>
                errors = ref.lx.errors

\* End-of-file reached next_token through the buffer, after at least one
\* other token and with a diagnostic in the log.
LookaheadIndependentWitness ==
    /\ last.op = "next"
    /\ ~last.scanned
    /\ IsEof(last.tok)
    /\ Len(returned) >= 2
    /\ errors # <<>>

(***************************************************************************)
(* C7.  End-of-file is terminal and repeatable: after a call returned      *)
(* EndOfFile, the next call returns EndOfFile with an empty lexeme and a   *)
(* zero-length span at the end of the source, and the cursor and the       *)
(* diagnostic log stay as they are.                                        *)
(***************************************************************************)
EofTerminal ==
    [][IsEof(last.tok) =>
          /\ IsEof(last'.tok)
          /\ last'.tok[1].lexeme = <<>>
          /\ last'.tok[1].span.start = Len(source)
          /\ last'.tok[1].span.end = Len(source)
          /\ UNCHANGED <<current_index, line, column, errors>>]_vars

\* A fresh scan returned EndOfFile after next_token had already returned it.
EofTerminalWitness ==
    /\ Len(returned) >= 2
    /\ returned[Len(returned) - 1].type_ = "EndOfFile"
    /\ IsEof(last.tok)
    /\ last.scanned
    /\ Len(source) > 0

ForwardProgress ==
    [][(last'.scanned /\ ~IsEof(last'.tok)) => current_index' > current_index]_vars

(***************************************************************************)
(* C10.  An unknown character, a `&` not followed by `&` and a `|` not     *)
(* followed by `|` each consume exactly that one character, append exactly *)
(* one unexpected-character diagnostic spanning it, return an Unknown      *)
(* token, and leave the cursor at the character right after it.            *)
(***************************************************************************)
\* Characters some arm of scan_token or the whitespace skipper handles.
HandledChars ==
    {"(", ")", "{", "}", "[", "]", ";", ",", ".", "+", "-", "*", "/",
     "&", "|", "=", "!", "<", ">", QUOTE, "_", " ", TAB, CR, NL}
        \cup Digits \cup Letters \cup NonAsciiAlphabetic

\* Offset s holds an unknown character or a lone `&` or `|`.
Offending(s) ==
    /\ s < Len(source)
    /\ \/ source[s + 1] \notin HandledChars
       \/ /\ source[s + 1] \in {"&", "|"}
          /\ (s + 1 = Len(source) \/ source[s + 2] # source[s + 1])

OffendingCharConsumed ==
    [][(last'.scanned /\ Offending(last'.tok[1].span.start)) =>
          LET t == last'.tok[1]
              s == t.span.start
          IN  /\ t.type_ = "Unknown"
              /\ t.span.end = s + 1
              /\ current_index' = s + 1
              /\ Len(errors') = Len(errors) + 1
              /\ SubSeq(errors', 1, Len(errors)) = errors
              /\ errors'[Len(errors')].span = t.span
              /\ errors'[Len(errors')].error_type = "UnexpectedCharacter"]_vars

\* A lone `&` with a character after it was scanned, and that character is
\* the one under the cursor.
OffendingCharWitness ==
    /\ last.scanned
    /\ last.tok[1].type_ = "Unknown"
    /\ StartChar(last.tok[1]) = "&"
    /\ current_index < Len(source)
    /\ current_index = last.tok[1].span.start + 1

(***************************************************************************)
(* C11.  Diagnostics are non-fatal and append-only: every call leaves the  *)
(* earlier entries of the log in place and only adds entries at its end;   *)
(* and the source i#i yields Identifier, Unknown, Identifier, EndOfFile    *)
(* with exactly one diagnostic.                                            *)
(***************************************************************************)
DiagnosticsAppendOnly ==
    [][/\ Len(errors') >= Len(errors)
       /\ SubSeq(errors', 1, Len(errors)) = errors
       /\ (source = <<"i", "#", "i">> /\ Len(returned') = 4) =>
              /\ [n \in 1..4 |-> returned'[n].type_]
                    = <<"Identifier", "Unknown", "Identifier", "EndOfFile">>
              /\ Len(errors') = 1]_vars

\* The stream of i#i drained through end-of-file, with its one diagnostic.
DiagnosticsAppendOnlyWitness ==
    /\ source = <<"i", "#", "i">>
    /\ Len(returned) = 4
    /\ Len(errors) = 1
    /\ errors[1].error_type = "UnexpectedCharacter"

(***************************************************************************)
(* Vocabulary for the properties of a built automaton: what the text       *)
(* declares, read from the text itself.                                    *)
(***************************************************************************)
BuiltOk == built # <<>> /\ built[1].ok

\* The transition lines of the text that are not blank.
DeclaredLines == SelectSeq(SubSeq(lines, 5, Len(lines)), LAMBDA l : trim(l) # <<>>)

\* The declared transitions <<o, c, d>>: origin, symbol text, destination.
Declared == {trimmed_fields(trim(l), {"=", ","}) : l \in elements(DeclaredLines)}

\* The declared final states.
DeclaredFinals == elements(nonempty_fields(lines[4]))

ExpectedResult(d) == IF d \in DeclaredFinals THEN "Accepted" ELSE "Continue"

\* C12. In a successfully built automaton every declared transition o,c=d is
\* taken: a runner in state o stepped on c ends in state d, and the step
\* returns Accepted exactly when d is a declared final state and Continue
\* otherwise.  Stated for the transition function on every declared line and
\* for every step a runner has actually made.
DeclaredTransitionsTaken ==
    BuiltOk =>
        /\ \A d \in Declared :
              LET t == DfaRunner_transition(automata_built, d[1], d[2][1])
              IN  /\ t.current_state = d[3]
                  /\ t.result = ExpectedResult(d[3])
        /\ last_step.op = "transition" =>
              \A d \in Declared :
                  (last_step.from = <<d[1]>> /\ <<last_step.symbol>> = d[2]) =>
                      /\ last_step.to = <<d[3]>>
                      /\ runners[last_step.runner] = <<d[3]>>
                      /\ last_step.result = ExpectedResult(d[3])

\* A runner has stepped from p to the final state q0 and another declared
\* transition leads to a state that is not final.
DeclaredTransitionsWitness ==
    /\ BuiltOk
    /\ last_step.op = "transition"
    /\ last_step.from = <<<<"p">>>>
    /\ last_step.to = <<<<"q", "0">>>>
    /\ last_step.result = "Accepted"
    /\ \E d \in Declared : d[3] \notin DeclaredFinals

\* C13. A step on a symbol with no declared transition from the runner's
\* current state (symbols outside the alphabet included) returns Reject and
\* leaves the runner where it was, and the runner's next step on a symbol
\* that has a declared transition from that state succeeds.
RejectLeavesState ==
    [][/\ (/\ BuiltOk'
           /\ last_step'.op = "transition"
           /\ ~ \E d \in Declared :
                   last_step'.from = <<d[1]>> /\ <<last_step'.symbol>> = d[2]) =>
              /\ last_step'.result = "Reject"
              /\ last_step'.to = last_step'.from
              /\ runners'[last_step'.runner] = last_step'.from
       /\ (/\ last_step.op = "transition"
           /\ last_step.result = "Reject"
           /\ last_step'.op = "transition"
           /\ last_step'.runner = last_step.runner
           /\ last_step' # last_step) =>
              \A d \in Declared :
                  (last_step.from = <<d[1]>> /\ <<last_step'.symbol>> = d[2]) =>
                      /\ last_step'.result = ExpectedResult(d[3])
                      /\ last_step'.to = <<d[3]>>]_vars

\* A runner that had left the initial state was stepped on a symbol outside
\* the alphabet and is still in q0, from which a transition is declared.
RejectLeavesStateWitness ==
    /\ BuiltOk
    /\ last_step.op = "transition"
    /\ last_step.result = "Reject"
    /\ last_step.symbol \notin elements(automata_built.alphabet)
    /\ last_step.from = <<<<"q", "0">>>>
    /\ runners[last_step.runner] = <<<<"q", "0">>>>
    /\ \E d \in Declared : d[1] = <<"q", "0">>

\* C14. A successfully built automaton is well formed: its initial state and
\* its final states are declared states, every transition leads from a
\* declared state on a symbol of the alphabet to a declared state, and no
\* (state, symbol) pair has two transitions: each declared line has its own.
AutomatonWellFormed ==
    BuiltOk =>
        LET a == automata_built
        IN  /\ a.states # {}
            /\ a.initial_state \in a.states
            /\ a.final_states \subseteq a.states
            /\ \A p \in DOMAIN a.transitions :
                  /\ p[1] \in a.states
                  /\ p[2] \in elements(a.alphabet)
                  /\ a.transitions[p] \in a.states
            /\ Cardinality(DOMAIN a.transitions) = Len(DeclaredLines)

\* An automaton with a final state and two transitions has been built.
AutomatonWellFormedWitness ==
    /\ BuiltOk
    /\ automata_built.final_states # {}
    /\ Cardinality(DOMAIN automata_built.transitions) = 2


(***************************************************************************)
(* The checks a text fails, read from the text itself, with lengths        *)
(* counted in characters.                                                  *)
(***************************************************************************)
AlphabetEntries == elements(nonempty_fields(lines[1]))

ExpandEntry(e) ==
    CASE e = <<"$">> -> Digits
      [] e = <<"%">> -> Letters
      [] e = <<"&">> -> Digits \cup Letters
      [] OTHER -> {e[1]}

DeclaredAlphabet == UNION {ExpandEntry(e) : e \in {x \in AlphabetEntries : Len(x) = 1}}

DeclaredStates == elements(nonempty_fields(lines[2]))

DeclaredInitial == trim(split(lines[3], {","})[1])

\* The fields of the n-th transition line that is not blank.
DeclaredFields(n) == trimmed_fields(trim(DeclaredLines[n]), {"=", ","})

\* The error kinds of the checks that one transition line fails.
LineFailures(d) ==
    IF Len(d) # 3 THEN {"InvalidFormat"}
    ELSE (IF d[1] \notin DeclaredStates \/ d[3] \notin DeclaredStates
          THEN {"InvalidState"} ELSE {})
         \cup (IF Len(d[2]) # 1 THEN {"InvalidFormat"} ELSE {})
         \cup (IF Len(d[2]) = 1 /\ d[2][1] \notin DeclaredAlphabet
               THEN {"InvalidSymbol"} ELSE {})

\* The error kinds of all the checks that the text fails.
Failures ==
    IF Len(lines) < 4 THEN {"InvalidFormat"}
    ELSE (IF \E e \in AlphabetEntries : Len(e) > 1 THEN {"InvalidFormat"} ELSE {})
         \cup (IF DeclaredStates = {} THEN {"InvalidFormat"} ELSE {})
         \cup (IF DeclaredInitial \notin DeclaredStates THEN {"InvalidInitialState"} ELSE {})
         \cup (IF \E f \in DeclaredFinals : f \notin DeclaredStates
               THEN {"InvalidState"} ELSE {})
         \cup UNION {LineFailures(DeclaredFields(n)) : n \in 1..Len(DeclaredLines)}
         \cup (IF \E m, n \in 1..Len(DeclaredLines) :
                     /\ m < n
                     /\ Len(DeclaredFields(m)) = 3 /\ Len(DeclaredFields(n)) = 3
                     /\ DeclaredFields(m)[1] = DeclaredFields(n)[1]
                     /\ DeclaredFields(m)[2] = DeclaredFields(n)[2]
               THEN {"DuplicateTransition"} ELSE {})

\* C15. Construction is atomic and classifies failures: when the text fails
\* a check, from_lines returns an error and no automaton, and the kind of the
\* error is the kind of a check the text fails (invalid-format, invalid-
\* initial-state, invalid-state, invalid-symbol or duplicate-transition).
FailuresClassified ==
    (built # <<>> /\ Failures # {}) =>
        /\ ~built[1].ok
        /\ DOMAIN built[1] = {"ok", "error"}
        /\ built[1].error \in Failures


\* The characters of a set in ascending order, each once.
Ascending(chars) == SelectSeq(CharOrder, LAMBDA c : c \in chars)

\* C16. The alphabet of a built automaton depends only on the set of entries
\* of the alphabet line: it is the ascending, duplicate-free sequence of the
\* union of the entries' expansions, `$` standing for the 10 digits, `%` for
\* the 52 ASCII letters and `&` for both, whatever the order of the entries
\* and however often an entry or a character it covers is listed.
AlphabetCanonical ==
    BuiltOk =>
        /\ automata_built.alphabet = Ascending(DeclaredAlphabet)
        /\ Cardinality(ExpandEntry(<<"$">>)) = 10
        /\ Cardinality(ExpandEntry(<<"%">>)) = 52
        /\ ExpandEntry(<<"&">>) = ExpandEntry(<<"$">>) \cup ExpandEntry(<<"%">>)

\* An automaton has been built from the alphabet line " $ ,, a,$,1 ,a", which
\* lists entries out of order, twice, and a digit the shorthand covers; its
\* alphabet is that of "a,$".
AlphabetCanonicalWitness ==
    /\ BuiltOk
    /\ Len(nonempty_fields(lines[1])) = 5
    /\ AlphabetEntries = {<<"$">>, <<"a">>, <<"1">>}
    /\ automata_built.alphabet = DigitSeq \o <<"a">>


(***************************************************************************)
(* Vocabulary for string literals: the literal a quote opens, read from    *)
(* the source text itself, and the line and column of an offset.           *)
(***************************************************************************)
ValidEscapes == {"n", "t", "r", BACKSLASH, QUOTE, "0"}

Unescaped(c) ==
    CASE c = "n" -> NL
      [] c = "t" -> TAB
      [] c = "r" -> CR
      [] c = "0" -> NUL
      [] OTHER -> c

\* The literal read from offset i on: how it ends ("quote", "newline" or
\* "eof") and at which offset, its value, and the offsets of the backslashes
\* of its invalid escapes.
RECURSIVE Literal(_, _, _)
Literal(i, value, invalid) ==
    IF i >= Len(source)
    THEN [end |-> "eof", at |-> i, value |-> value, invalid |-> invalid]
    ELSE IF source[i + 1] = QUOTE
    THEN [end |-> "quote", at |-> i, value |-> value, invalid |-> invalid]
    ELSE IF source[i + 1] = NL
    THEN [end |-> "newline", at |-> i, value |-> value, invalid |-> invalid]
    ELSE IF source[i + 1] = BACKSLASH
    THEN IF i + 1 >= Len(source)
         THEN [end |-> "eof", at |-> i + 1, value |-> value, invalid |-> invalid]
         ELSE IF source[i + 2] \in ValidEscapes
         THEN Literal(i + 2, Append(value, Unescaped(source[i + 2])), invalid)
         ELSE Literal(i + 2, Append(value, source[i + 2]), Append(invalid, i))
    ELSE Literal(i + 1, Append(value, source[i + 1]), invalid)

\* Offset s holds an opening quote.
OpensLiteral(s) == s < Len(source) /\ source[s + 1] = QUOTE

LiteralAt(s) == Literal(s + 1, <<>>, <<>>)

\* The line of offset s: 1 plus the newlines before it.
LineOf(s) == 1 + Cardinality({k \in 1..s : source[k] = NL})

\* The column of offset s: 1 for the first character of its line.
ColumnOf(s) ==
    LET before == {k \in 1..s : source[k] = NL}
    IN  IF before = {} THEN s + 1
        ELSE s + 1 - (CHOOSE k \in before : \A j \in before : j <= k)

\* The diagnostics of one kind among those a step has added to the log.
Added(kind) ==
    SelectSeq(SubSeq(errors', Len(errors) + 1, Len(errors')),
              LAMBDA e : e.error_type = kind)

\* C17. A scan that starts at the opening quote of a well-formed literal
\* (valid escapes only, no unescaped newline, closed by a quote) yields one
\* StringLiteral token whose value is the unescaped text and whose span runs
\* from the opening quote through the closing quote, leaves the cursor just
\* past the closing quote and records no diagnostic.
WellFormedLiteralScanned ==
    [][(/\ last'.scanned
        /\ OpensLiteral(last'.tok[1].span.start)
        /\ LiteralAt(last'.tok[1].span.start).end = "quote"
        /\ LiteralAt(last'.tok[1].span.start).invalid = <<>>) =>
          LET t == last'.tok[1]
              l == LiteralAt(t.span.start)
          IN  /\ t.type_ = "StringLiteral"
              /\ t.lexeme = l.value
              /\ t.span.end = l.at + 1
              /\ current_index' = l.at + 1
              /\ errors' = errors]_vars

\* The literal "\"" has been scanned: its value is a quote, and the cursor is
\* past its closing quote at the end of the source.
WellFormedLiteralWitness ==
    /\ source = <<QUOTE, BACKSLASH, QUOTE, QUOTE>>
    /\ last.scanned
    /\ last.tok[1].type_ = "StringLiteral"
    /\ last.tok[1].lexeme = <<QUOTE>>
    /\ last.tok[1].span.start = 0
    /\ current_index = 4
    /\ errors = <<>>


\* C18. A scan of a literal with invalid escapes repairs and continues: each
\* backslash followed by a character other than n, t, r, \, ", 0 adds exactly
\* one invalid-escape diagnostic whose span starts at the backslash and whose
\* column is the backslash's column, the character itself goes into the
\* value, and a closing quote later on still yields a StringLiteral token.
InvalidEscapeRepaired ==
    [][(/\ last'.scanned
        /\ OpensLiteral(last'.tok[1].span.start)
        /\ LiteralAt(last'.tok[1].span.start).invalid # <<>>) =>
          LET t == last'.tok[1]
              l == LiteralAt(t.span.start)
              added == Added("InvalidEscape")
          IN  /\ Len(added) = Len(l.invalid)
              /\ \A k \in 1..Len(added) :
                    /\ added[k].span.start = l.invalid[k]
                    /\ added[k].span.column = ColumnOf(l.invalid[k])
              /\ l.end = "quote" =>
                    /\ t.type_ = "StringLiteral"
                    /\ t.lexeme = l.value
                    /\ current_index' = l.at + 1]_vars

\* C19. A scan of a literal that an unescaped newline or the end of input
\* (also directly after a backslash) cuts short returns an Unknown token and
\* adds exactly one unterminated-string diagnostic whose span starts at the
\* opening quote, with the quote's offset, line and column; a terminating
\* newline is left unconsumed.
UnterminatedStringReported ==
    [][(/\ last'.scanned
        /\ OpensLiteral(last'.tok[1].span.start)
        /\ LiteralAt(last'.tok[1].span.start).end \in {"newline", "eof"}) =>
          LET t == last'.tok[1]
              l == LiteralAt(t.span.start)
              added == Added("UnterminatedString")
          IN  /\ t.type_ = "Unknown"
              /\ Len(added) = 1
              /\ added[1].span.start = t.span.start
              /\ added[1].span.line = LineOf(t.span.start)
              /\ added[1].span.column = ColumnOf(t.span.start)
              /\ current_index' = l.at]_vars

\* C20. Every token and every diagnostic reports the line of its span's
\* start: 1 plus the number of newlines in the source before that offset.
LinesCounted ==
    /\ \A t \in Produced : t.span.line = LineOf(t.span.start)
    /\ \A n \in 1..Len(errors) : errors[n].span.line = LineOf(errors[n].span.start)


\* C21. Every token reports the column of its first character: the position
\* of its start offset within its line, counted from 1, whatever tokens come
\* before it on the line.
ColumnsCounted ==
    \A t \in Produced : t.type_ # "EndOfFile" => t.span.column = ColumnOf(t.span.start)


\* C24. A trial match that records no accepted offset leaves the cursor where
\* the attempt started: offset, line and column after the failed attempt are
\* those before it.  Stated for the attempts scan_token makes at the next
\* token's start: float then integer at a digit, identifier at a letter or
\* an underscore.
FailedMatchRestoresCursor ==
    LET lx == skip_whitespace_and_comments(lexer)
        c == peek_char(lx)
        Restored(before, r) ==
            r.tok = <<>> =>
                /\ r.lx.current_index = before.current_index
                /\ r.lx.line = before.line
                /\ r.lx.column = before.column
        float == try_match_float(lx, lx.current_index, lx.line, lx.column)
        integer == try_match_integer(float.lx, lx.current_index, lx.line, lx.column)
        identifier == try_match_identifier(lx, lx.current_index, lx.line, lx.column)
    IN  ~is_at_end(lx) =>
            /\ is_ascii_digit(c) =>
                  /\ Restored(lx, float)
                  /\ float.tok = <<>> => Restored(float.lx, integer)
            /\ (is_alphabetic(c) \/ c = "_") => Restored(lx, identifier)


\* The operator that starts at offset s, read from the source text: its
\* category and its width in characters.
OperatorAt(s) ==
    LET c == source[s + 1]
        d == IF s + 1 < Len(source) THEN source[s + 2] ELSE NUL
    IN  CASE c = "=" /\ d = "=" -> <<"OperatorEqual", 2>>
          [] c = "=" /\ d # "=" -> <<"OperatorAssign", 1>>
          [] c = "!" /\ d = "=" -> <<"OperatorNotEqual", 2>>
          [] c = "!" /\ d # "=" -> <<"Not", 1>>
          [] c = "<" /\ d = "=" -> <<"OperatorLessEq", 2>>
          [] c = "<" /\ d = ">" -> <<"OperatorNotEqual", 2>>
          [] c = "<" /\ d \notin {"=", ">"} -> <<"OperatorLess", 1>>
          [] c = ">" /\ d = "=" -> <<"OperatorGreaterEq", 2>>
          [] c = ">" /\ d # "=" -> <<"OperatorGreater", 1>>
          [] c = "&" /\ d = "&" -> <<"And", 2>>
          [] c = "|" /\ d = "|" -> <<"Or", 2>>
          [] OTHER -> <<"none", 0>>

\* C22. Operators are told apart by one character of lookahead: == equal,
\* else = assign; != not-equal, else ! not; <= less-or-equal, else <>
\* not-equal, else < less; >= greater-or-equal, else > greater; && and;
\* || or.  A two-character operator consumes two characters, a one-character
\* fallback consumes one and leaves the next character to the next scan.
OperatorsDisambiguated ==
    [][(/\ last'.scanned
        /\ last'.tok[1].span.start < Len(source)
        /\ OperatorAt(last'.tok[1].span.start)[2] > 0) =>
          LET t == last'.tok[1]
              s == t.span.start
              op == OperatorAt(s)
          IN  /\ t.type_ = op[1]
              /\ t.lexeme = SubSeq(source, s + 1, s + op[2])
              /\ t.span.end = s + op[2]
              /\ current_index' = s + op[2]
              /\ errors' = errors]_vars

\* "<>=" has been read as not-equal followed by assign: the two-character
\* operator took two characters and the = after it was left to the next scan.
OperatorsDisambiguatedWitness ==
    /\ source = <<"<", ">", "=">>
    /\ Len(returned) = 2
    /\ returned[1].type_ = "OperatorNotEqual"
    /\ returned[1].span.end = 2
    /\ returned[2].type_ = "OperatorAssign"
    /\ returned[2].span.start = 2
    /\ current_index = 3


\* C23. The token-consumption loop reports nothing before the stream is
\* exhausted, stops at EndOfFile only, and then returns the aggregate failure
\* exactly when the tokenizer has recorded a diagnostic; an Unknown token is
\* consumed and the loop goes on.
AggregateFailureAtEof ==
    [][/\ parser'.pc # "done" => parser'.result = "running"
       /\ parser'.pc = "done" =>
             /\ IsEof(peeked_token')
             /\ parser'.result = "Err" <=> errors' # <<>>
             /\ parser'.result = "Ok" <=> errors' = <<>>
       /\ (parser.pc = "match" /\ peeked_token[1].type_ = "Unknown") =>
             /\ parser'.pc = "peek"
             /\ returned' = Append(returned, peeked_token[1])
             /\ peeked_token' = <<>>]_vars

\* The loop has run over "#t": the Unknown token for # was consumed, the
\* identifier after it was read, and at EndOfFile the failure was returned.
AggregateFailureWitness ==
    /\ source = <<"#", "t">>
    /\ parser = [pc |-> "done", result |-> "Err"]
    /\ [n \in 1..Len(returned) |-> returned[n].type_] = <<"Unknown", "Identifier">>
    /\ Len(errors) = 1


\* The offsets of the source that lie in a line comment, read from the text
\* from offset i on: a comment runs from // up to, and without, the next
\* newline or the end of the source.
RECURSIVE CommentOffsets(_, _)
CommentOffsets(i, inside) ==
    IF i >= Len(source) THEN {}
    ELSE IF inside
    THEN IF source[i + 1] = NL THEN CommentOffsets(i + 1, FALSE)
         ELSE {i} \cup CommentOffsets(i + 1, TRUE)
    ELSE IF source[i + 1] = "/" /\ i + 1 < Len(source) /\ source[i + 2] = "/"
    THEN {i} \cup CommentOffsets(i + 1, TRUE)
    ELSE CommentOffsets(i + 1, FALSE)

Commented == CommentOffsets(0, FALSE)

\* C25. Comments are found before operators are: no token and no diagnostic
\* covers an offset of a line comment, the newline after a comment counts as
\* a line break for what follows, and a / outside a comment, not followed by
\* another /, is a division token one character wide.
CommentsSkipped ==
    /\ \A t \in Produced :
          /\ \A k \in t.span.start..(t.span.end - 1) : k \notin Commented
          /\ t.span.start \notin Commented
          /\ t.span.line = LineOf(t.span.start)
    /\ errors # <<>> =>
          \A n \in 1..Len(errors) :
              \A k \in errors[n].span.start..(errors[n].span.end - 1) : k \notin Commented
    /\ (last.scanned /\ StartChar(last.tok[1]) = "/") =>
          /\ last.tok[1].type_ = "OperatorDivide"
          /\ last.tok[1].span.end = last.tok[1].span.start + 1
          /\ current_index = last.tok[1].span.start + 1

\* "//#" on the first line, a letter on the second: the only token before
\* EndOfFile is the identifier, on line 2, and nothing was reported for #.
CommentsSkippedWitness ==
    /\ source = <<"/", "/", "#", NL, "i">>
    /\ Len(returned) = 2
    /\ returned[1].type_ = "Identifier"
    /\ returned[1].span = Span_new(4, 5, 2, 1)
    /\ returned[2].type_ = "EndOfFile"
    /\ errors = <<>>


\* C26. A scan that starts at a digit of which neither the float nor the
\* integer automaton accepts a prefix appends exactly one diagnostic, an
\* invalid-number one whose span starts at the digit's offset, line and
\* column, and returns an Unknown token with that span: no Float or Integer
\* token is made there.
InvalidNumberReported ==
    [][(/\ last'.scanned
        /\ is_ascii_digit(StartChar(last'.tok[1]))
        /\ LongestAccepted(float_dfa, last'.tok[1].span.start) = 0
        /\ LongestAccepted(integer_dfa, last'.tok[1].span.start) = 0) =>
          LET t == last'.tok[1]
              s == t.span.start
          IN  /\ t.type_ = "Unknown"
              /\ Len(errors') = Len(errors) + 1
              /\ errors'[Len(errors')].error_type = "InvalidNumber"
              /\ errors'[Len(errors')].span = t.span
              /\ t.span.start = s
              /\ t.span.line = LineOf(s)
              /\ t.span.column = ColumnOf(s)]_vars


\* C27. A freshly created runner is in the declared initial state; reset
\* puts a runner back there whatever it was stepped on before, also when it
\* is there already; and a step taken right after a reset has the outcome
\* the same step has on a fresh runner.
ResetToInitial ==
    [][/\ last_step'.op \in {"new", "reset"} =>
             /\ last_step'.to = <<DeclaredInitial>>
             /\ runners'[last_step'.runner] = <<DeclaredInitial>>
       /\ (/\ last_step.op = "reset"
           /\ last_step'.op = "transition"
           /\ last_step'.runner = last_step.runner) =>
             LET fresh == DfaRunner_transition(automata_built, DfaRunner_new(automata_built),
                                               last_step'.symbol)
             IN  /\ last_step'.from = <<DeclaredInitial>>
                 /\ last_step'.result = fresh.result
                 /\ last_step'.to = <<fresh.current_state>>]_vars

\* A runner that had moved on to q0 has been reset to p.
ResetToInitialWitness ==
    /\ BuiltOk
    /\ last_step.op = "reset"
    /\ last_step.from = <<<<"q", "0">>>>
    /\ last_step.to = <<<<"p">>>>
    /\ runners[last_step.runner] = <<<<"p">>>>

\* C28. Runners leave the shared definition alone and leave each other
\* alone: no create, step or reset call changes the built automaton, and a
\* call on one runner changes the current state of no other runner.
RunnersIndependent ==
    [][/\ built # <<>> => built' = built
       /\ \A r \in RunnerIds : r # last_step'.runner => runners'[r] = runners[r]]_vars

\* Two runners on one automaton stand in different states after a step of
\* the first.
RunnersIndependentWitness ==
    /\ BuiltOk
    /\ last_step.op = "transition"
    /\ last_step.runner = 1
    /\ runners[1] = <<<<"q", "0">>>>
    /\ runners[2] = <<<<"p">>>>
    /\ built[1].value = from_lines(lines).value


\* A span lies within the source and counts lines and columns from 1.
SpanWellFormed(span) ==
    /\ span.start <= span.end
    /\ span.end <= Len(source)
    /\ span.line >= 1
    /\ span.column >= 1

\* C29. Every span of a token or of a diagnostic, in every state of the
\* tokenizer, has start <= end <= length of the source, line >= 1 and
\* column >= 1.
SpansWellFormed ==
    /\ \A t \in Produced : SpanWellFormed(t.span)
    /\ \A n \in 1..Len(errors) : SpanWellFormed(errors[n].span)

\* An invalid-escape diagnostic for a backslash right after the opening
\* quote at the start of the source: its column, computed as column - 1, is
\* 2, and its span ends with the source.
SpansWellFormedWitness ==
    /\ \E n \in 1..Len(errors) :
          /\ errors[n].error_type = "InvalidEscape"
          /\ errors[n].span.column = 2
          /\ errors[n].span.end = Len(source)
    /\ \E t \in Produced : t.type_ = "EndOfFile"

\* C30. The cursor offset seen between scans never decreases and never
\* exceeds the length of the source, and the tokens next_token returns have
\* ordered spans that do not overlap: each starts at or after the end of the
\* one before.
CursorMonotonic ==
    [][/\ current_index' >= current_index
       /\ current_index' <= Len(source)
       /\ \A n \in 2..Len(returned') :
             returned'[n].span.start >= returned'[n - 1].span.end]_vars

\* "i i" has been read to the end: two identifiers with a gap between their
\* spans, then EndOfFile, the cursor at the length of the source.
CursorMonotonicWitness ==
    /\ Len(source) = 3
    /\ Len(returned) = 3
    /\ returned[1].type_ = "Identifier"
    /\ returned[2].type_ = "Identifier"
    /\ returned[2].span.start > returned[1].span.end
    /\ returned[3].type_ = "EndOfFile"
    /\ current_index = 3


\* The diagnostics a step has appended to the log.
Appended == SubSeq(errors', Len(errors) + 1, Len(errors'))

\* The Unknown tokens scans have produced so far: those handed out and the
\* buffered one.
UnknownsProduced ==
    Cardinality({n \in 1..Len(returned) : returned[n].type_ = "Unknown"})
        + Cardinality({n \in 1..Len(peeked_token) : peeked_token[n].type_ = "Unknown"})

\* A call that scans and yields an Unknown token appends, in that call,
\* exactly one diagnostic with the token's span, and that diagnostic's
\* message is the token's lexeme.
UnknownPaired ==
    (last'.scanned /\ last'.tok[1].type_ = "Unknown") =>
        LET t == last'.tok[1]
            same == {n \in 1..Len(Appended) : Appended[n].span = t.span}
        IN  /\ Len(errors') >= Len(errors)
            /\ SubSeq(errors', 1, Len(errors)) = errors
            /\ Cardinality(same) = 1
            /\ \A n \in same : Appended[n].message = t.lexeme

\* C31. Every Unknown token a scan produces comes with exactly one
\* diagnostic appended during that scan that has the same span and whose
\* message is the token's lexeme; so the log always holds at least as many
\* diagnostics as Unknown tokens were produced, and has_errors is true
\* exactly when get_errors is not empty.
UnknownTokensDiagnosed ==
    /\ [](/\ Len(get_errors(lexer)) >= UnknownsProduced
          /\ has_errors(lexer) <=> (get_errors(lexer) # <<>>))
    /\ [][UnknownPaired]_vars

\* An unterminated literal with an invalid escape: one scan, one Unknown
\* token, two diagnostics, one of them with the token's span.
UnknownTokensDiagnosedWitness ==
    /\ source = <<QUOTE, BACKSLASH, "q">>
    /\ last.scanned
    /\ last.tok[1].type_ = "Unknown"
    /\ Len(errors) = 2
    /\ Cardinality({n \in 1..2 : errors[n].span = last.tok[1].span}) = 1
    /\ UnknownsProduced = 1
    /\ has_errors(lexer)


\* The states the built automaton goes through on `input` from its initial
\* state, read off its transition table: Trace(input)[k + 1] holds the state
\* after k characters, and is empty from the first character on that has no
\* transition.
Trace(input) ==
    LET reach[k \in 0..Len(input)] ==
            IF k = 0 THEN <<automata_built.initial_state>>
            ELSE IF reach[k - 1] = <<>> THEN <<>>
            ELSE IF <<reach[k - 1][1], input[k]>> \in DOMAIN automata_built.transitions
                 THEN <<automata_built.transitions[<<reach[k - 1][1], input[k]>>]>>
                 ELSE <<>>
    IN  [n \in 1..(Len(input) + 1) |-> reach[n - 1]]

\* C32. process_string(input) returns true exactly when the automaton, run
\* from its initial state whatever state the runner was in, has a transition
\* for every character of input in order and ends in a final state; it
\* returns false at the first character without a transition and leaves the
\* runner in the state reached just before that character; on the empty
\* input it returns whether the initial state is final.
ProcessStringDecides ==
    [][last_step'.op = "process_string" =>
          LET input == last_step'.input
              trace == Trace(input)
              n == Len(input)
              stuck == {k \in 1..n : trace[k + 1] = <<>>}
          IN  /\ last_step'.result = "true" <=>
                     /\ trace[n + 1] # <<>>
                     /\ trace[n + 1][1] \in automata_built.final_states
              /\ stuck # {} =>
                     /\ last_step'.result = "false"
                     /\ \A k \in stuck : (\A j \in stuck : k <= j) =>
                            /\ last_step'.to = trace[k]
                            /\ runners'[last_step'.runner] = trace[k]
              /\ stuck = {} =>
                     /\ last_step'.to = trace[n + 1]
                     /\ runners'[last_step'.runner] = trace[n + 1]
              /\ input = <<>> =>
                     (last_step'.result = "true" <=>
                          automata_built.initial_state \in automata_built.final_states)]_vars

\* A runner standing on q0 is given "a1" on the automaton p -a-> q0 -1-> q0
\* with initial state p: the call answers true from p, though q0 has no
\* transition on "a".
ProcessStringDecidesWitness ==
    /\ last_step.op = "process_string"
    /\ last_step.from = <<<<"q", "0">>>>
    /\ automata_built.initial_state = <<"p">>
    /\ last_step.input = <<"a", "1">>
    /\ last_step.result = "true"
    /\ runners[last_step.runner] = <<<<"q", "0">>>>

\* The call stops at the second character of "aa" and leaves the runner on
\* q0, the state reached just before it.
ProcessStringStopsWitness ==
    /\ last_step.op = "process_string"
    /\ automata_built.initial_state = <<"p">>
    /\ last_step.input = <<"a", "a">>
    /\ last_step.result = "false"
    /\ last_step.from = <<<<"p">>>>
    /\ runners[last_step.runner] = <<<<"q", "0">>>>

====
